---- MODULE Spec2Model ----
(***************************************************************************)
(* Model of Coal0/watch: the Session class (src/session.py) and the        *)
(* Database store built on it (src/sample/sample.py).                      *)
(*                                                                         *)
(* Time is the value of time.time(), counted in ticks of 1/TicksPerSecond  *)
(* second.  A method reads the clock at most three times; the time that    *)
(* passes between two reads of one call is an input of the action.         *)
(* Strings (keys, values, file contents) are sequences of characters.      *)
(***************************************************************************)
EXTENDS Integers, Sequences, FiniteSets, TLC

VARIABLES
    clock,              \* time.time(), in ticks
    cls,                \* class of the live object: "None", "Session", "Database"
    session_duration,   \* self._session_duration, in seconds (NoAttr if unset)
    session_expiry,     \* self._session_expiry, in ticks (NoAttr if unset)
    access_level,       \* self._access_level
    database,           \* self._database
    file,               \* contents of the file at self._database_path
    logged_out,         \* history: logout has run and start_session has not since
    started_at,         \* history: clock read by the latest start_session (NoAttr if none)
    ret                 \* outcome of the last call

vars == <<clock, cls, session_duration, session_expiry, access_level,
          database, file, logged_out, started_at, ret>>

----------------------------------------------------------------------------
(* Bounds *)

TicksPerSecond == 2
MaxIntra == 2
MaxDrift == 2
NumPeriods == 2
MaxShortDuration == 1

(* Program constants *)

_USER_SESSION_LENGTH == 1800
_ADMIN_SESSION_LENGTH == 900

----------------------------------------------------------------------------
(* The clock *)

Period == _ADMIN_SESSION_LENGTH * TicksPerSecond

\* The instants at which the model looks at the clock: at most MaxDrift
\* ticks after a multiple of the shorter session length.
InRange(t) == t <= NumPeriods * Period + MaxDrift /\ t % Period <= MaxDrift

ClockSteps == {1, TicksPerSecond, Period}

\* The time that may pass between two clock reads of one call.  It is shorter
\* than every session duration, so the session a constructor starts is still
\* alive when its _load asks for it and _database is a dict, never None.
IntraSteps == 0..MaxIntra

\* Python's int() of a float number of seconds: truncation towards zero.
int(ticks) ==
    IF ticks >= 0 THEN ticks \div TicksPerSecond
                  ELSE -((-ticks) \div TicksPerSecond)

----------------------------------------------------------------------------
(* Attribute and return values *)

NoAttr == -1

NoAccess == "noattr"

\* self._database: not set, None, or a dict (items in insertion order).
NoDatabase == [kind |-> "noattr", items |-> <<>>]
NoneDatabase == [kind |-> "None", items |-> <<>>]
Dict(items) == [kind |-> "dict", items |-> items]

\* The outcome of a call: kind is "None", "bool", "int", "str" or "raise".
Result(kind, exc, n, b, s, printed) ==
    [kind |-> kind, exc |-> exc, n |-> n, b |-> b, s |-> s, printed |-> printed]

ReturnNone == Result("None", "", 0, FALSE, <<>>, FALSE)
ReturnBool(b) == Result("bool", "", 0, b, <<>>, FALSE)
ReturnInt(n) == Result("int", "", n, FALSE, <<>>, FALSE)
ReturnStr(s) == Result("str", "", 0, FALSE, s, FALSE)
Raise(exc, n) == Result("raise", exc, n, FALSE, <<>>, FALSE)
\* print("Your session has expired. Please login again."); return
PrintExpired == Result("None", "", 0, FALSE, <<>>, TRUE)

Call(op, key, value, res) == [op |-> op, key |-> key, value |-> value, res |-> res]

NoCall == Call("", <<>>, <<>>, ReturnNone)

----------------------------------------------------------------------------
(* Session: src/session.py *)

\* has_expired with the comparison reversed.
has_expired_reversed(expiry, now) ==
    IF expiry = NoAttr
    THEN Raise("ValueError:not started", 0)
    ELSE ReturnBool(now < expiry)

\* Session.has_expired: self._session_expiry is expiry, the clock reads now.
has_expired(expiry, now) ==
    IF expiry = NoAttr
    THEN Raise("ValueError:not started", 0)
    ELSE ReturnBool(now > expiry)

\* Session.time_until_expiry: has_expired reads the clock at t1, the
\* subtraction at t2.
time_until_expiry(expiry, t1, t2) ==
    LET h == has_expired(expiry, t1) IN
    IF h.kind = "raise" THEN h
    ELSE IF h.b THEN ReturnInt(0)
    ELSE ReturnInt(int(expiry - t2))

\* time_since_expiry with the operands of the subtraction swapped.
time_since_expiry_swapped(expiry, t1, t2) ==
    LET h == has_expired(expiry, t1) IN
    IF h.kind = "raise" THEN h
    ELSE IF ~h.b THEN ReturnInt(0)
    ELSE ReturnInt(int(expiry - t2))

\* Session.time_since_expiry: has_expired reads the clock at t1, the
\* subtraction at t2.
time_since_expiry(expiry, t1, t2) ==
    LET h == has_expired(expiry, t1) IN
    IF h.kind = "raise" THEN h
    ELSE IF ~h.b THEN ReturnInt(0)
    ELSE ReturnInt(int(t2 - expiry))

\* Session.require_session: has_expired reads the clock at t1; on expiry
\* the message is formatted from time_since_expiry, which reads at t2, t3.
require_session(expiry, t1, t2, t3) ==
    LET h == has_expired(expiry, t1) IN
    IF h.kind = "raise" THEN h
    ELSE IF h.b
         THEN LET s == time_since_expiry(expiry, t2, t3) IN
              IF s.kind = "raise" THEN s
              ELSE Raise("ValueError:session expired", s.n)
         ELSE ReturnNone

----------------------------------------------------------------------------
(* Text: str.split, str.strip, file.readlines, dict *)

Whitespace == {" ", "\n"}

\* file.readlines(): the lines of text, each with its line ending.
RECURSIVE readlines_from(_, _, _)
readlines_from(text, i, line) ==
    IF i > Len(text)
    THEN IF line = <<>> THEN <<>> ELSE <<line>>
    ELSE IF text[i] = "\n"
         THEN <<Append(line, "\n")>> \o readlines_from(text, i + 1, <<>>)
         ELSE readlines_from(text, i + 1, Append(line, text[i]))

readlines(text) == readlines_from(text, 1, <<>>)

\* line.split(":"): the parts between every two colons.
RECURSIVE split_from(_, _, _)
split_from(line, i, part) ==
    IF i > Len(line)
    THEN <<part>>
    ELSE IF line[i] = ":"
         THEN <<part>> \o split_from(line, i + 1, <<>>)
         ELSE split_from(line, i + 1, Append(part, line[i]))

split(line) == split_from(line, 1, <<>>)

\* value.strip(): without leading and trailing whitespace.
RECURSIVE lstrip(_)
lstrip(s) ==
    IF s # <<>> /\ Head(s) \in Whitespace THEN lstrip(Tail(s)) ELSE s

RECURSIVE rstrip(_)
rstrip(s) ==
    IF s # <<>> /\ s[Len(s)] \in Whitespace
    THEN rstrip(SubSeq(s, 1, Len(s) - 1))
    ELSE s

strip(s) == rstrip(lstrip(s))

\* dict: a sequence of <<key, value>> with distinct keys, in insertion order.
dict_has(items, key) == \E i \in 1..Len(items) : items[i][1] = key

dict_value(items, key) ==
    items[CHOOSE i \in 1..Len(items) : items[i][1] = key][2]

\* database[key] = value
dict_set(items, key, value) ==
    IF dict_has(items, key)
    THEN [i \in 1..Len(items) |->
            IF items[i][1] = key THEN <<key, value>> ELSE items[i]]
    ELSE Append(items, <<key, value>>)

KeyDoesNotExist == <<"Key does not exist">>

\* database.get(key, "Key does not exist")
dict_get(items, key) ==
    IF dict_has(items, key) THEN dict_value(items, key) ELSE KeyDoesNotExist

----------------------------------------------------------------------------
(* Database: src/sample/sample.py *)

\* The loop of Database._load over the lines of the file: the dict built,
\* or a ValueError where a line does not split into exactly two parts.
RECURSIVE load_lines(_, _, _)
load_lines(lines, i, items) ==
    IF i > Len(lines)
    THEN [ok |-> TRUE, items |-> items]
    ELSE LET parts == split(lines[i]) IN
         IF Len(parts) # 2
         THEN [ok |-> FALSE, items |-> <<>>]
         ELSE load_lines(lines, i + 1, dict_set(items, parts[1], strip(parts[2])))

\* Database._load: require_session reads the clock at t1, t2, t3.
\* res is the outcome of the call, db the value returned.
_load(text, expiry, t1, t2, t3) ==
    LET r == require_session(expiry, t1, t2, t3) IN
    IF r.kind = "raise"
    THEN [res |-> PrintExpired, db |-> NoneDatabase]
    ELSE LET parsed == load_lines(readlines(text), 1, <<>>) IN
         IF parsed.ok
         THEN [res |-> ReturnNone, db |-> Dict(parsed.items)]
         ELSE [res |-> Raise("ValueError:unpack", 0), db |-> NoDatabase]

\* The text Database.logout writes for a dict.
RECURSIVE written(_, _)
written(items, i) ==
    IF i > Len(items)
    THEN <<>>
    ELSE items[i][1] \o <<":">> \o items[i][2] \o written(items, i + 1)

\* _login taking every level but "user" for an admin.
LoginDuration_lenient(level) ==
    IF level = "user" THEN _USER_SESSION_LENGTH ELSE _ADMIN_SESSION_LENGTH

\* _login with the two session lengths swapped.
LoginDuration_swapped(level) ==
    IF level = "user" THEN _ADMIN_SESSION_LENGTH
    ELSE IF level = "admin" THEN _USER_SESSION_LENGTH
    ELSE NoAttr

\* Session durations by access level, as chosen in Database._login.
LoginDuration(level) ==
    IF level = "user" THEN _USER_SESSION_LENGTH
    ELSE IF level = "admin" THEN _ADMIN_SESSION_LENGTH
    ELSE NoAttr

----------------------------------------------------------------------------
(* Inputs *)

Durations == (1..MaxShortDuration) \cup {_ADMIN_SESSION_LENGTH}

AccessLevels == {"user", "admin", "Admin", "superuser"}

Keys == {<<"a">>, <<"b">>}

Values == {<<"9">>}

\* Contents the backing file may have before the first store is built.
InitialFiles ==
    { <<>>,
      <<"a", ":", "1", "\n", "b", ":", "2", "\n">>,
      <<"a", ":", "1", "\n", "a", ":", "2", "\n">>,
      <<"a", ":", "1", ":", "2", "\n">> }

----------------------------------------------------------------------------
(* State machine *)

Init ==
    /\ clock = 0
    /\ cls = "None"
    /\ session_duration = NoAttr
    /\ session_expiry = NoAttr
    /\ access_level = NoAccess
    /\ database = NoDatabase
    /\ file \in InitialFiles
    /\ logged_out = FALSE
    /\ started_at = NoAttr
    /\ ret = NoCall

\* Time passes between two calls.
Tick(d) ==
    /\ InRange(clock + d)
    /\ clock' = clock + d
    /\ ret' = NoCall
    /\ UNCHANGED <<cls, session_duration, session_expiry, access_level,
                   database, file, logged_out, started_at>>

\* Session(session_duration)
Session__init__(duration) ==
    /\ cls' = "Session"
    /\ session_duration' = duration
    /\ session_expiry' = NoAttr
    /\ access_level' = NoAccess
    /\ database' = NoDatabase
    /\ logged_out' = FALSE
    /\ started_at' = NoAttr
    /\ ret' = Call("Session", <<>>, <<>>, ReturnNone)
    /\ UNCHANGED <<clock, file>>

\* start_session adding the duration to the expiry already stored.
start_expiry_additive(now, duration) ==
    IF session_expiry = NoAttr \/ cls = "None"
    THEN now + duration * TicksPerSecond
    ELSE session_expiry + duration * TicksPerSecond

\* start_session forgetting the duration.
start_expiry_without_duration(now, duration) == now

\* The expiry Session.start_session stores when the clock reads now.
start_expiry(now, duration) == now + duration * TicksPerSecond

\* session.start_session(); d is the time from the clock read to the return.
start_session(d) ==
    /\ cls # "None"
    /\ InRange(clock + d)
    /\ session_expiry' = start_expiry(clock, session_duration)
    /\ clock' = clock + d
    /\ logged_out' = FALSE
    /\ started_at' = clock
    /\ ret' = Call("start_session", <<>>, <<>>, ReturnNone)
    /\ UNCHANGED <<cls, session_duration, access_level, database, file>>

\* The expiry Session.expire_session stores when the clock reads now.
expire_expiry(now) == now

\* session.expire_session(); d is the time from the clock read to the return.
expire_session(d) ==
    /\ cls # "None"
    /\ InRange(clock + d)
    /\ session_expiry' = expire_expiry(clock)
    /\ clock' = clock + d
    /\ ret' = Call("expire_session", <<>>, <<>>, ReturnNone)
    /\ UNCHANGED <<cls, session_duration, access_level, database, file,
                   logged_out, started_at>>

\* A query that stores the expiry it has just found to have passed.
Query_memoizing(op, res, elapsed) ==
    /\ cls # "None"
    /\ InRange(clock + elapsed)
    /\ clock' = clock + elapsed
    /\ ret' = Call(op, <<>>, <<>>, res)
    /\ session_expiry' = IF session_expiry # NoAttr /\ clock > session_expiry
                         THEN clock
                         ELSE session_expiry
    /\ UNCHANGED <<cls, session_duration, access_level,
                   database, file, logged_out, started_at>>

\* A read of one of the three properties, or a call of require_session:
\* nothing but the clock changes.
Query(op, res, elapsed) ==
    /\ cls # "None"
    /\ InRange(clock + elapsed)
    /\ clock' = clock + elapsed
    /\ ret' = Call(op, <<>>, <<>>, res)
    /\ UNCHANGED <<cls, session_duration, session_expiry, access_level,
                   database, file, logged_out, started_at>>

get_has_expired ==
    Query("has_expired", has_expired(session_expiry, clock), 0)

get_time_until_expiry(d) ==
    Query("time_until_expiry",
          time_until_expiry(session_expiry, clock, clock + d), d)

get_time_since_expiry(d) ==
    Query("time_since_expiry",
          time_since_expiry(session_expiry, clock, clock + d), d)

call_require_session(d1, d2) ==
    Query("require_session",
          require_session(session_expiry, clock, clock + d1, clock + d1 + d2),
          d1 + d2)

\* Database(access_level, database_path): _login, then _load, then the two
\* attribute assignments.  start_session reads the clock now, _load's
\* require_session d later.
Database__init__(level, d) ==
    LET duration == LoginDuration(level)
        expiry == start_expiry(clock, duration)
        loaded == _load(file, expiry, clock + d, clock + d, clock + d)
    IN
    /\ InRange(clock + d)
    /\ IF duration = NoAttr
       THEN \* _login raises before any attribute is set
            /\ cls' = "None"
            /\ session_duration' = NoAttr
            /\ session_expiry' = NoAttr
            /\ access_level' = NoAccess
            /\ database' = NoDatabase
            /\ started_at' = NoAttr
            /\ clock' = clock
            /\ ret' = Call("Database", <<level>>, <<>>,
                           Raise("ValueError:invalid access level", 0))
       ELSE IF loaded.res.kind = "raise"
       THEN \* _load raises: no object is returned
            /\ cls' = "None"
            /\ session_duration' = NoAttr
            /\ session_expiry' = NoAttr
            /\ access_level' = NoAccess
            /\ database' = NoDatabase
            /\ started_at' = NoAttr
            /\ clock' = clock + d
            /\ ret' = Call("Database", <<level>>, <<>>, loaded.res)
       ELSE /\ cls' = "Database"
            /\ session_duration' = duration
            /\ session_expiry' = expiry
            /\ access_level' = level
            /\ database' = loaded.db
            /\ started_at' = clock
            /\ clock' = clock + d
            /\ ret' = Call("Database", <<level>>, <<>>, loaded.res)
    /\ logged_out' = FALSE
    /\ UNCHANGED file

\* view indexing the dict instead of calling get: KeyError for an absent key.
view_indexing(key, d) ==
    LET r == require_session(session_expiry, clock, clock + d, clock + d)
        res == IF r.kind = "raise" THEN PrintExpired
               ELSE IF database.kind # "dict" THEN Raise("AttributeError", 0)
               ELSE IF ~dict_has(database.items, key) THEN Raise("KeyError", 0)
               ELSE ReturnStr(dict_value(database.items, key))
    IN
    /\ cls = "Database"
    /\ InRange(clock + d)
    /\ clock' = clock + d
    /\ ret' = Call("view", key, <<>>, res)
    /\ UNCHANGED <<cls, session_duration, session_expiry, access_level,
                   database, file, logged_out, started_at>>

\* database.view(key): require_session reads the clock now and, should it
\* format the message, d later.
view(key, d) ==
    LET r == require_session(session_expiry, clock, clock + d, clock + d)
        res == IF r.kind = "raise" THEN PrintExpired
               ELSE IF database.kind # "dict" THEN Raise("AttributeError", 0)
               ELSE ReturnStr(dict_get(database.items, key))
    IN
    /\ cls = "Database"
    /\ InRange(clock + d)
    /\ clock' = clock + d
    /\ ret' = Call("view", key, <<>>, res)
    /\ UNCHANGED <<cls, session_duration, session_expiry, access_level,
                   database, file, logged_out, started_at>>

\* modify without the access-level check.
modify_without_permission_check(key, value, d) ==
    LET r == require_session(session_expiry, clock, clock + d, clock + d)
        res == IF r.kind = "raise" THEN PrintExpired
               ELSE IF database.kind # "dict" THEN Raise("TypeError", 0)
               ELSE ReturnNone
    IN
    /\ cls = "Database"
    /\ InRange(clock + d)
    /\ clock' = clock + d
    /\ database' = IF res = ReturnNone
                   THEN Dict(dict_set(database.items, key, value))
                   ELSE database
    /\ ret' = Call("modify", key, value, res)
    /\ UNCHANGED <<cls, session_duration, session_expiry, access_level,
                   file, logged_out, started_at>>

\* modify saving the dict to the file at once.
modify_write_through(key, value, d) ==
    LET r == require_session(session_expiry, clock, clock + d, clock + d)
        res == IF r.kind = "raise" THEN PrintExpired
               ELSE IF access_level # "admin" THEN Raise("PermissionError", 0)
               ELSE IF database.kind # "dict" THEN Raise("TypeError", 0)
               ELSE ReturnNone
    IN
    /\ cls = "Database"
    /\ InRange(clock + d)
    /\ clock' = clock + d
    /\ database' = IF res = ReturnNone
                   THEN Dict(dict_set(database.items, key, value))
                   ELSE database
    /\ file' = IF res = ReturnNone THEN written(database'.items, 1) ELSE file
    /\ ret' = Call("modify", key, value, res)
    /\ UNCHANGED <<cls, session_duration, session_expiry, access_level,
                   logged_out, started_at>>

\* database.modify(key, value): the clock is read as in view.
modify(key, value, d) ==
    LET r == require_session(session_expiry, clock, clock + d, clock + d)
        res == IF r.kind = "raise" THEN PrintExpired
               ELSE IF access_level # "admin" THEN Raise("PermissionError", 0)
               ELSE IF database.kind # "dict" THEN Raise("TypeError", 0)
               ELSE ReturnNone
    IN
    /\ cls = "Database"
    /\ InRange(clock + d)
    /\ clock' = clock + d
    /\ database' = IF res = ReturnNone
                   THEN Dict(dict_set(database.items, key, value))
                   ELSE database
    /\ ret' = Call("modify", key, value, res)
    /\ UNCHANGED <<cls, session_duration, session_expiry, access_level,
                   file, logged_out, started_at>>

\* database.logout(): expire_session reads the clock now; the file is
\* opened for writing (and so emptied) before the dict is iterated.
logout(d) ==
    /\ cls = "Database"
    /\ InRange(clock + d)
    /\ session_expiry' = expire_expiry(clock)
    /\ clock' = clock + d
    /\ file' = IF database.kind = "dict" THEN written(database.items, 1) ELSE <<>>
    /\ logged_out' = TRUE
    /\ ret' = Call("logout", <<>>, <<>>,
                   IF database.kind = "dict" THEN ReturnNone
                                             ELSE Raise("TypeError", 0))
    /\ UNCHANGED <<cls, session_duration, access_level, database, started_at>>

Next ==
    \/ \E d \in ClockSteps : Tick(d)
    \/ \E duration \in Durations : Session__init__(duration)
    \/ \E d \in IntraSteps : start_session(d)
    \/ \E d \in IntraSteps : expire_session(d)
    \/ get_has_expired
    \/ \E d \in IntraSteps : get_time_until_expiry(d)
    \/ \E d \in IntraSteps : get_time_since_expiry(d)
    \/ \E d1, d2 \in IntraSteps : call_require_session(d1, d2)
    \/ \E level \in AccessLevels, d \in IntraSteps : Database__init__(level, d)
    \/ \E key \in Keys, d \in IntraSteps : view(key, d)
    \/ \E key \in Keys, value \in Values, d \in IntraSteps :
           modify(key, value, d)
    \/ \E d \in IntraSteps : logout(d)

Spec == Init /\ [][Next]_vars

----------------------------------------------------------------------------
(* Properties *)

\* The session of the object is expired when the clock reads now.
Expired(now) == session_expiry # NoAttr /\ now > session_expiry

\* The session of the object is started and not expired when the clock reads now.
Live(now) == session_expiry # NoAttr /\ ~(now > session_expiry)

\* The value a dict holds for key, as database.get(key, sentinel) gives it.
ValueOf(db, key) == dict_get(db.items, key)

\* C1: on a store whose session has expired (clock > expiry) view returns
\* None and modify leaves the dict as it is; both print the session-expired
\* message and return instead of raising, and the expiry is not changed.
C1_ExpiredStoreRefuses ==
    [][ (cls = "Database" /\ Expired(clock) /\ ret'.op \in {"view", "modify"})
        => /\ ret'.res = PrintExpired
           /\ database' = database
           /\ session_expiry' = session_expiry ]_vars

C1_Witness ==
    /\ ret.op = "modify"
    /\ access_level = "admin"
    /\ ret.res = PrintExpired
    /\ clock > session_expiry

\* C2: in the state in which expire_session returns, whether or not the
\* clock has moved since it read it, has_expired is True and require_session
\* raises the session-expired ValueError.
C2_ExpireForcesExpiry ==
    ret.op = "expire_session"
    => /\ has_expired(session_expiry, clock) = ReturnBool(TRUE)
       /\ require_session(session_expiry, clock, clock, clock).exc
              = "ValueError:session expired"

\* C3: from logout until the next start_session no view returns the value
\* stored for its key and every modify leaves the dict as it is.
C3_NoAccessAfterLogout ==
    [][ (logged_out /\ ret'.op \in {"view", "modify"})
        => /\ ~(/\ ret'.op = "view"
                /\ ret'.res.kind = "str"
                /\ dict_has(database.items, ret'.key))
           /\ database' = database ]_vars

\* C4: on an object whose start_session was never called, whatever else was
\* called on it, has_expired, time_until_expiry and time_since_expiry raise
\* the not-started ValueError.
C4_UnstartedQueriesRaise ==
    [][ (cls # "None" /\ started_at = NoAttr
         /\ ret'.op \in {"has_expired", "time_until_expiry", "time_since_expiry"})
        => ret'.res = Raise("ValueError:not started", 0) ]_vars

C6_ExpiredAfterDuration ==
    (cls # "None" /\ started_at # NoAttr
     /\ clock >= started_at + session_duration * TicksPerSecond)
    => /\ has_expired(session_expiry, clock) = ReturnBool(TRUE)
       /\ time_since_expiry(session_expiry, clock, clock).n >= 0

C8_UserCannotModify ==
    [][ (cls = "Database" /\ access_level = "user" /\ ret'.op = "modify")
        => /\ database' = database
           /\ Live(clock) => ret'.res = Raise("PermissionError", 0) ]_vars

C8_Witness ==
    /\ ret.op = "modify"
    /\ access_level = "user"
    /\ ret.res = Raise("PermissionError", 0)
    /\ ~dict_has(database.items, ret.key)

\* C9: a store built right after the logout of an admin store, on the file
\* that logout wrote, loads, and holds for every key of the dict at logout
\* the value it had then.
C9_RoundTrip ==
    [][ (ret.op = "logout" /\ access_level = "admin" /\ ret'.op = "Database"
         /\ ret'.res.exc # "ValueError:invalid access level")
        => /\ cls' = "Database"
           /\ database'.kind = "dict"
           /\ \A i \in 1..Len(database.items) :
                  ValueOf(database', database.items[i][1]) = database.items[i][2] ]_vars

\* C10: modify on an admin store with a live session sets the key to the
\* value in the dict and touches nothing else; no view and no modify changes
\* the file, and the file changes in no call but logout.
C10_ModifyInMemoryOnly ==
    [][ /\ (cls = "Database" /\ access_level = "admin" /\ Live(clock)
            /\ ret'.op = "modify")
           => /\ ret'.res = ReturnNone
              /\ database'.kind = "dict"
              /\ \A key \in Keys :
                     ValueOf(database', key) =
                         IF key = ret'.key THEN ret'.value
                                           ELSE ValueOf(database, key)
              /\ file' = file
        /\ ret'.op \in {"view", "modify"} => file' = file
        /\ file' # file => ret'.op = "logout" ]_vars

C10_Witness ==
    /\ ret.op = "modify"
    /\ ret.res = ReturnNone
    /\ Len(database.items) = 2
    /\ written(database.items, 1) # file
    /\ file # <<>>

\* C11: Database(level, path) with a level other than exactly "user" or
\* "admin" raises the invalid-access-level ValueError; no session is started
\* (no expiry is stored), the file is not loaded and no object results.
C11_InvalidAccessLevel ==
    [][ (ret'.op = "Database" /\ ret'.key \notin {<<"user">>, <<"admin">>})
        => /\ ret'.res = Raise("ValueError:invalid access level", 0)
           /\ cls' = "None"
           /\ session_expiry' = NoAttr
           /\ session_duration' = NoAttr
           /\ database' = NoDatabase
           /\ file' = file
           /\ clock' = clock ]_vars

C11_Witness ==
    /\ ret.op = "Database"
    /\ ret.key = <<"Admin">>
    /\ ret.res.kind = "raise"
    /\ ~load_lines(readlines(file), 1, <<>>).ok

\* The position of the first colon of line (0 if it has none).
FirstColon(line) ==
    IF \E i \in 1..Len(line) : line[i] = ":"
    THEN CHOOSE i \in 1..Len(line) :
             line[i] = ":" /\ \A j \in 1..(i - 1) : line[j] # ":"
    ELSE 0

\* The dict a first-colon split of the lines gives: the text before the
\* first colon mapped to the stripped rest, a later line replacing an earlier.
RECURSIVE FirstColonItems(_, _, _)
FirstColonItems(lines, i, items) ==
    IF i > Len(lines)
    THEN items
    ELSE LET line == lines[i]
             c == FirstColon(line)
         IN FirstColonItems(lines, i + 1,
                dict_set(items, SubSeq(line, 1, c - 1),
                         strip(SubSeq(line, c + 1, Len(line)))))

\* C12: _load splits each line on its first colon only: on a file whose
\* lines all hold a colon, also where a value holds further colons, the
\* store is built and its dict maps the text before the first colon to the
\* stripped rest, the last line winning for a repeated key.
C12_FirstColonLoad ==
    [][ (/\ ret'.op = "Database"
         /\ ret'.key \in {<<"user">>, <<"admin">>}
         /\ \A i \in 1..Len(readlines(file)) : FirstColon(readlines(file)[i]) > 0)
        => /\ cls' = "Database"
           /\ database' = Dict(FirstColonItems(readlines(file), 1, <<>>)) ]_vars

C14_LoginDurations ==
    [][ /\ (ret'.op = "Database" /\ cls' = "Database")
           => /\ access_level' = "user"
                  => /\ session_duration' = 1800
                     /\ session_expiry' = clock + 1800 * TicksPerSecond
              /\ access_level' = "admin"
                  => /\ session_duration' = 900
                     /\ session_expiry' = clock + 900 * TicksPerSecond
              /\ access_level' \in {"user", "admin"}
              /\ ~(clock' > session_expiry')
        /\ ret'.op \notin {"Database", "Session"}
           => session_duration' = session_duration ]_vars

C14_Witness ==
    /\ ret.op = "Database"
    /\ cls = "Database"
    /\ access_level = "admin"
    /\ started_at >= Period
    /\ clock > started_at
    /\ session_expiry = started_at + 900 * TicksPerSecond

\* What loading a text gives: the dict, or the failure of the load.
Loaded(text) == load_lines(readlines(text), 1, <<>>)

\* C15: no view, modify or logout on a user-level store changes what
\* loading the file gives, so after any sequence of them the file loads to
\* the mapping it held before the store was built.
C15_UserStoreReadOnly ==
    [][ (cls = "Database" /\ access_level = "user"
         /\ ret'.op \in {"view", "modify", "logout"})
        => Loaded(file') = Loaded(file) ]_vars

\* C16: start_session at time t stores exactly t + duration, whatever the
\* expiry before, and time_until_expiry never returns more than the duration.
C16_RestartNotAdditive ==
    [][ /\ ret'.op = "start_session"
           => session_expiry' = clock + session_duration * TicksPerSecond
        /\ (ret'.op = "time_until_expiry" /\ session_expiry # NoAttr)
           => /\ ret'.res.kind = "int"
              /\ ret'.res.n <= session_duration
        /\ session_expiry' # NoAttr
           => session_expiry' - clock' <= session_duration' * TicksPerSecond ]_vars

C16_Witness ==
    /\ ret.op = "start_session"
    /\ cls = "Database"
    /\ access_level = "admin"
    /\ started_at = Period
    /\ session_expiry = 2 * Period
    /\ time_until_expiry(session_expiry, clock, clock).n <= session_duration

\* C17: has_expired, time_until_expiry, time_since_expiry and
\* require_session change neither expiry nor duration; the expiry changes
\* only to now + duration in start_session (also as the constructor of the
\* store calls it) and to now in expire_session (also as logout calls it);
\* time passing changes nothing but the clock.
C17_QueriesPure ==
    [][ /\ ret'.op \in {"has_expired", "time_until_expiry",
                        "time_since_expiry", "require_session"}
           => /\ session_expiry' = session_expiry
              /\ session_duration' = session_duration
              /\ database' = database
              /\ file' = file
        /\ (session_expiry' # session_expiry /\ session_expiry' # NoAttr)
           => \/ /\ ret'.op \in {"start_session", "Database"}
                 /\ session_expiry' = clock + session_duration' * TicksPerSecond
              \/ /\ ret'.op \in {"expire_session", "logout"}
                 /\ session_expiry' = clock
        /\ ret'.op = ""
           => UNCHANGED <<cls, session_duration, session_expiry, access_level,
                          database, file>> ]_vars

C17_Witness ==
    /\ ret.op = "require_session"
    /\ ret.res.kind = "raise"
    /\ session_expiry = started_at + session_duration * TicksPerSecond
    /\ clock > session_expiry + TicksPerSecond

\* C18: once a started session is expired (has_expired returns True) it stays
\* expired in every later state up to the next start_session, whatever
\* expire_session calls are made; the clock never goes back.
C18_ExpiredStable ==
    [][ (cls # "None" /\ started_at # NoAttr /\ Expired(clock)
         /\ ret'.op \notin {"start_session", "Database", "Session"})
        => (session_expiry' # NoAttr /\ clock' > session_expiry') ]_vars

\* C19: time_until_expiry on a started session returns 0 if the session has
\* expired and never a negative number, also when the clock passes the
\* expiry between the two clock reads of the call.
C19_TimeUntilExpiryNonNegative ==
    [][ (ret'.op = "time_until_expiry" /\ started_at # NoAttr)
        => /\ ret'.res.kind = "int"
           /\ ret'.res.n >= 0
           /\ Expired(clock) => ret'.res.n = 0 ]_vars

====
